---- MODULE Spec2Model ----
(***************************************************************************)
(* Verification model of printipi:                                         *)
(*   - iodrv::IoPin (src/src/iodrivers/iopin.cpp): the living-pin          *)
(*     registry, move semantics, inversion and the exit handler;           *)
(*   - the DMA/GPIO proof of concept                                       *)
(*     (src/code/proof-of-concept/DMA/dma-gpio.c): main() and the DMA      *)
(*     engine it programs;                                                 *)
(*   - the KosselPi machine configuration                                  *)
(*     (src/code/firmware/src/drivers/machines/kosselpi.h), as a client    *)
(*     that constructs pins.                                               *)
(***************************************************************************)
EXTENDS Integers, Sequences, FiniteSets, TLC

\* ------------------------------------------------------------------ bounds
\* number of hardware lines
NumLines == 2
\* resolution of a duty cycle: the duty d/DutyScale, d in 0..DutyScale
DutyScale == 2

\* ------------------------------------------------------- IoPin: the values
\* the addresses at which an IoPin object can live
Objs == {1, 2}
\* the hardware lines
Lines == 1..NumLines

\* PrimitiveIoPin::null(): the primitive pin that references no line
NullPin == 0

IoLow == "IoLow"
IoHigh == "IoHigh"
IoLevels == {IoLow, IoHigh}

\* operator! on IoLevel
NotLevel(lev) == IF lev = IoLow THEN IoHigh ELSE IoLow

IO_DEFAULT_NONE == "IO_DEFAULT_NONE"
IO_DEFAULT_LOW == "IO_DEFAULT_LOW"
IO_DEFAULT_HIGH == "IO_DEFAULT_HIGH"
IO_DEFAULT_HIGH_IMPEDANCE == "IO_DEFAULT_HIGH_IMPEDANCE"
DefaultIoStates ==
    {IO_DEFAULT_NONE, IO_DEFAULT_LOW, IO_DEFAULT_HIGH, IO_DEFAULT_HIGH_IMPEDANCE}

\* IoPinInversions, as the pair (invert reads, invert writes)
IoPinInversions == BOOLEAN \X BOOLEAN

SCHED_IO_EXIT_LEVEL == "SCHED_IO_EXIT_LEVEL"

\* the storage of an IoPin object that is not alive (never constructed, or destroyed)
NoPin ==
    [live |-> FALSE, pin |-> NullPin, invertReads |-> FALSE,
     invertWrites |-> FALSE, defaultState |-> IO_DEFAULT_NONE]

\* lastOp when the last thing done is not recorded
NoOp ==
    [op |-> "none", obj |-> 0, null |-> FALSE, lev |-> IoLow, prim |-> IoLow,
     asked |-> 0, duty |-> 0]

VARIABLES
    pins,          \* address -> the IoPin object stored there
    livingPins,    \* IoPin::livingPins, a std::set<IoPin*>
    lines,         \* hardware line -> its mode and level
    doOnce,        \* registerExitHandler's static bool has been initialised
    exitHandlers,  \* SchedulerBase's registered exit handlers
    phase,         \* "running" or "exited"
    lastOp,        \* the last operation on a pin, its operands and its result
    exitVisited,   \* the pins deactivateAll visited, in order
    linesAtExit    \* the lines as they were when the exit handlers started

pinVars ==
    <<pins, livingPins, lines, doOnce, exitHandlers, phase, lastOp, exitVisited,
      linesAtExit>>

VARIABLES
    pc,            \* the statement of main() to execute next
    exitStatus,    \* "running", or how the process ended
    physSrcPage,   \* main's physSrcPage, as set by makeVirtPhysPage
    physCbPage,    \* main's physCbPage
    srcFrame,      \* the physical address at which the source page really is
    cbFrame,       \* the physical address at which the control-block page really is
    srcArray,      \* the words of the source page
    cb1,           \* the control block at the start of the control-block page
    cbAssigned,    \* the fields of cb1 assigned so far
    hdr,           \* the registers of the DMA channel dmaHeader points at
    hdrWrites,     \* main's writes to those registers, in order
    cbAtActivate,  \* the control block in memory at CONBLK_AD when ACTIVE was set
    enabled,       \* the channels whose bit is set in the DMA ENABLE register
    gpio,          \* mode and output latch of GPIO pin 4
    freed,         \* the pages given to freeVirtPhysPage
    failures,      \* the calls of main that have failed
    accessed       \* the peripheral registers main has accessed as base + OFFSET

dmaVars ==
    <<pc, exitStatus, physSrcPage, physCbPage, srcFrame, cbFrame, srcArray, cb1,
      cbAssigned, hdr, hdrWrites, cbAtActivate, enabled, gpio, freed,
      failures, accessed>>

vars == <<pinVars, dmaVars>>

\* ------------------------------------------- PrimitiveIoPin (one hardware line)
\* Operations on the null primitive pin are no-ops; a read of it returns the
\* idle level.
PrimMakeDigitalOutput(ls, pin, lev) ==
    IF pin = NullPin THEN ls
    ELSE [ls EXCEPT ![pin] = [mode |-> "output", level |-> lev]]

PrimMakeDigitalInput(ls, pin) ==
    IF pin = NullPin THEN ls ELSE [ls EXCEPT ![pin].mode = "input"]

PrimDigitalWrite(ls, pin, lev) ==
    IF pin = NullPin THEN ls ELSE [ls EXCEPT ![pin].level = lev]

PrimDigitalRead(ls, pin) ==
    IF pin = NullPin THEN IoLow ELSE ls[pin].level

\* --------------------------------------------------------- IoPin: methods
\* Each takes the lines ls and the IoPin object p it is called on, and gives
\* the lines (or the value) it leaves.
Mut_translateWriteToPrimitive(p, lev) == lev

translateWriteToPrimitive(p, lev) ==
    IF p.invertWrites THEN NotLevel(lev) ELSE lev

Mut_translateDutyCycleToPrimitive(p, pwm) ==
    IF p.invertReads THEN DutyScale - pwm ELSE pwm

translateDutyCycleToPrimitive(p, pwm) ==
    IF p.invertWrites THEN DutyScale - pwm ELSE pwm

isNull(p) == p.pin = NullPin

makeDigitalOutput(ls, p, lev) ==
    PrimMakeDigitalOutput(ls, p.pin, translateWriteToPrimitive(p, lev))

makeDigitalInput(ls, p) == PrimMakeDigitalInput(ls, p.pin)

digitalRead(ls, p) ==
    IF p.invertReads THEN NotLevel(PrimDigitalRead(ls, p.pin))
    ELSE PrimDigitalRead(ls, p.pin)

digitalWrite(ls, p, lev) ==
    PrimDigitalWrite(ls, p.pin, translateWriteToPrimitive(p, lev))

setToDefault(ls, p) ==
    IF ~isNull(p) THEN
        IF p.defaultState = IO_DEFAULT_LOW THEN makeDigitalOutput(ls, p, IoLow)
        ELSE IF p.defaultState = IO_DEFAULT_HIGH THEN makeDigitalOutput(ls, p, IoHigh)
        ELSE IF p.defaultState = IO_DEFAULT_HIGH_IMPEDANCE THEN makeDigitalInput(ls, p)
        ELSE ls
    ELSE ls

\* the least address of a non-empty set of addresses: a std::set<IoPin*> is
\* iterated in ascending order of the pointers
MinOf(S) == CHOOSE x \in S : \A y \in S : x <= y

RECURSIVE VisitOrder(_)
VisitOrder(S) ==
    IF S = {} THEN <<>> ELSE <<MinOf(S)>> \o VisitOrder(S \ {MinOf(S)})

RECURSIVE SetEachToDefault(_, _, _)
SetEachToDefault(ls, ps, order) ==
    IF order = <<>> THEN ls
    ELSE SetEachToDefault(setToDefault(ls, ps[Head(order)]), ps, Tail(order))

\* for (auto p : livingPins) p->setToDefault();
deactivateAll(ls, ps, living) == SetEachToDefault(ls, ps, VisitOrder(living))

\* SchedulerBase::registerExitHandler(handler, level)
SchedRegisterExitHandler(hs, fn, level) ==
    Append(hs, [fn |-> fn, level |-> level])

Mut_registerExitHandler(once, hs) ==
    [doOnce |-> TRUE,
     handlers |-> SchedRegisterExitHandler(hs, "deactivateAll", SCHED_IO_EXIT_LEVEL)]

\* the static bool doOnce is initialised, and so the handler registered, by the
\* first call only
registerExitHandler(once, hs) ==
    IF once THEN [doOnce |-> TRUE, handlers |-> hs]
    ELSE [doOnce |-> TRUE,
          handlers |-> SchedRegisterExitHandler(hs, "deactivateAll", SCHED_IO_EXIT_LEVEL)]

\* SchedulerBase runs the registered handlers at exit
RECURSIVE RunExitHandlers(_, _, _, _)
RunExitHandlers(hs, ls, ps, living) ==
    IF hs = <<>> THEN ls
    ELSE RunExitHandlers(Tail(hs), deactivateAll(ls, ps, living), ps, living)

RECURSIVE VisitedByHandlers(_, _)
VisitedByHandlers(hs, living) ==
    IF hs = <<>> THEN <<>>
    ELSE VisitOrder(living) \o VisitedByHandlers(Tail(hs), living)

\* IoPin& IoPin::operator=(IoPin &&other), statement by statement; this and
\* other may be the same object
Mut_moveAssignPins(ps, this, other) ==
    [ps EXCEPT ![this].invertReads = ps[other].invertReads,
               ![this].invertWrites = ps[other].invertWrites,
               ![this].defaultState = ps[other].defaultState,
               ![this].pin = ps[other].pin]

moveAssignPins(ps, this, other) ==
    LET p1 == [ps EXCEPT ![this].invertReads = ps[other].invertReads]
        p2 == [p1 EXCEPT ![this].invertWrites = p1[other].invertWrites]
        p3 == [p2 EXCEPT ![this].defaultState = p2[other].defaultState]
        p4 == [p3 EXCEPT ![this].pin = p3[other].pin]
    IN  [p4 EXCEPT ![other].pin = NullPin]

Mut_moveAssignLiving(living, this, other) == living \ {other}

moveAssignLiving(living, this, other) == (living \cup {this}) \ {other}

\* ~IoPin(): what it leaves of the registry
Mut_destroyLiving(living, this) == living

destroyLiving(living, this) == living \ {this}

\* ------------------------------------------------------ IoPin: the actions
Running == phase = "running"

\* IoPin(IoPinInversions, PrimitiveIoPin) at address o: the object registers the
\* exit handler and itself
Construct(o, inv, l) ==
    /\ Running
    /\ ~pins[o].live
    /\ LET r == registerExitHandler(doOnce, exitHandlers) IN
        /\ doOnce' = r.doOnce
        /\ exitHandlers' = r.handlers
    /\ pins' = [pins EXCEPT ![o] =
                    [live |-> TRUE, pin |-> l, invertReads |-> inv[1],
                     invertWrites |-> inv[2], defaultState |-> IO_DEFAULT_NONE]]
    /\ livingPins' = livingPins \cup {o}
    /\ lastOp' = NoOp
    /\ UNCHANGED <<lines, phase, exitVisited, linesAtExit>>
    /\ UNCHANGED dmaVars

SetDefaultState(o, state) ==
    /\ Running
    /\ pins[o].live
    /\ pins' = [pins EXCEPT ![o].defaultState = state]
    /\ lastOp' = NoOp
    /\ UNCHANGED <<livingPins, lines, doOnce, exitHandlers, phase, exitVisited,
                   linesAtExit>>
    /\ UNCHANGED dmaVars

\* IoPin(IoPin &&other) at address this: _pin starts null, then *this = move(other)
MoveConstruct(this, other) ==
    /\ Running
    /\ ~pins[this].live
    /\ pins[other].live
    /\ pins' = moveAssignPins(
                   [pins EXCEPT ![this] = [NoPin EXCEPT !.live = TRUE]], this, other)
    /\ livingPins' = moveAssignLiving(livingPins, this, other)
    /\ lastOp' = NoOp
    /\ UNCHANGED <<lines, doOnce, exitHandlers, phase, exitVisited, linesAtExit>>
    /\ UNCHANGED dmaVars

MoveAssign(this, other) ==
    /\ Running
    /\ pins[this].live
    /\ pins[other].live
    /\ pins' = moveAssignPins(pins, this, other)
    /\ livingPins' = moveAssignLiving(livingPins, this, other)
    /\ lastOp' = NoOp
    /\ UNCHANGED <<lines, doOnce, exitHandlers, phase, exitVisited, linesAtExit>>
    /\ UNCHANGED dmaVars

\* ~IoPin()
Destroy(o) ==
    /\ Running
    /\ pins[o].live
    /\ lines' = setToDefault(lines, pins[o])
    /\ livingPins' = destroyLiving(livingPins, o)
    /\ pins' = [pins EXCEPT ![o] = NoPin]
    /\ lastOp' = IF isNull(pins[o])
                 THEN [NoOp EXCEPT !.op = "destroy", !.obj = o, !.null = TRUE]
                 ELSE NoOp
    /\ UNCHANGED <<doOnce, exitHandlers, phase, exitVisited, linesAtExit>>
    /\ UNCHANGED dmaVars

SetToDefault(o) ==
    /\ Running
    /\ pins[o].live
    /\ lines' = setToDefault(lines, pins[o])
    /\ lastOp' = IF isNull(pins[o])
                 THEN [NoOp EXCEPT !.op = "setToDefault", !.obj = o, !.null = TRUE]
                 ELSE NoOp
    /\ UNCHANGED <<pins, livingPins, doOnce, exitHandlers, phase, exitVisited,
                   linesAtExit>>
    /\ UNCHANGED dmaVars

\* the process exits (normally, or aborted by a signal): SchedulerBase runs the
\* exit handlers
Exit ==
    /\ Running
    /\ phase' = "exited"
    /\ lines' = RunExitHandlers(exitHandlers, lines, pins, livingPins)
    /\ exitVisited' = VisitedByHandlers(exitHandlers, livingPins)
    /\ linesAtExit' = lines
    /\ lastOp' = NoOp
    /\ UNCHANGED <<pins, livingPins, doOnce, exitHandlers>>
    /\ UNCHANGED dmaVars

\* The pin I/O operations record in lastOp what was asked (lev, asked), what was
\* handed to or read from the primitive pin (prim) and what was returned (lev,
\* duty); ~IoPin and setToDefault are recorded when the pin was null.
Did(op, obj, lev, prim, asked, duty) ==
    lastOp' = [op |-> op, obj |-> obj, null |-> isNull(pins[obj]), lev |-> lev,
               prim |-> prim, asked |-> asked, duty |-> duty]

MakeDigitalOutput(o, lev) ==
    /\ Running
    /\ pins[o].live
    /\ lines' = makeDigitalOutput(lines, pins[o], lev)
    /\ Did("makeDigitalOutput", o, lev, translateWriteToPrimitive(pins[o], lev), 0, 0)
    /\ UNCHANGED <<pins, livingPins, doOnce, exitHandlers, phase, exitVisited,
                   linesAtExit>>
    /\ UNCHANGED dmaVars

MakeDigitalInput(o) ==
    /\ Running
    /\ pins[o].live
    /\ lines' = makeDigitalInput(lines, pins[o])
    /\ Did("makeDigitalInput", o, IoLow, IoLow, 0, 0)
    /\ UNCHANGED <<pins, livingPins, doOnce, exitHandlers, phase, exitVisited,
                   linesAtExit>>
    /\ UNCHANGED dmaVars

DigitalWrite(o, lev) ==
    /\ Running
    /\ pins[o].live
    /\ lines' = digitalWrite(lines, pins[o], lev)
    /\ Did("digitalWrite", o, lev, translateWriteToPrimitive(pins[o], lev), 0, 0)
    /\ UNCHANGED <<pins, livingPins, doOnce, exitHandlers, phase, exitVisited,
                   linesAtExit>>
    /\ UNCHANGED dmaVars

\* lastOp.prim is the level of the primitive pin, lastOp.lev the level returned
DigitalRead(o) ==
    /\ Running
    /\ pins[o].live
    /\ Did("digitalRead", o, digitalRead(lines, pins[o]),
           PrimDigitalRead(lines, pins[o].pin), 0, 0)
    /\ UNCHANGED <<pins, livingPins, lines, doOnce, exitHandlers, phase,
                   exitVisited, linesAtExit>>
    /\ UNCHANGED dmaVars

\* lastOp.lev / lastOp.prim are the level asked for and its translation,
\* lastOp.asked / lastOp.duty the duty cycle asked for and its translation
TranslateWrite(o, lev, pwm) ==
    /\ Running
    /\ pins[o].live
    /\ Did("translate", o, lev, translateWriteToPrimitive(pins[o], lev), pwm,
           translateDutyCycleToPrimitive(pins[o], pwm))
    /\ UNCHANGED <<pins, livingPins, lines, doOnce, exitHandlers, phase,
                   exitVisited, linesAtExit>>
    /\ UNCHANGED dmaVars

PinInit ==
    /\ pins = [o \in Objs |-> NoPin]
    /\ livingPins = {}
    /\ lines \in [Lines -> [mode : {"input", "output"}, level : IoLevels]]
    /\ doOnce = FALSE
    /\ exitHandlers = <<>>
    /\ phase = "running"
    /\ lastOp = NoOp
    /\ exitVisited = <<>>
    /\ linesAtExit = [l \in Lines |-> [mode |-> "input", level |-> IoLow]]

\* the life cycle of the pins, up to the exit of the process
PinNext ==
    \/ \E o \in Objs, inv \in IoPinInversions, l \in Lines \cup {NullPin} :
            Construct(o, inv, l)
    \/ \E o \in Objs, state \in DefaultIoStates : SetDefaultState(o, state)
    \/ \E a, b \in Objs : MoveConstruct(a, b)
    \/ \E a, b \in Objs : MoveAssign(a, b)
    \/ \E o \in Objs : Destroy(o)
    \/ \E o \in Objs : SetToDefault(o)
    \/ Exit

\* reads and writes through the pins
IoNext ==
    \/ \E o \in Objs, inv \in IoPinInversions, l \in Lines \cup {NullPin} :
            Construct(o, inv, l)
    \/ \E o \in Objs : Destroy(o)
    \/ \E o \in Objs, lev \in IoLevels : MakeDigitalOutput(o, lev)
    \/ \E o \in Objs : MakeDigitalInput(o)
    \/ \E o \in Objs, lev \in IoLevels : DigitalWrite(o, lev)
    \/ \E o \in Objs : DigitalRead(o)
    \/ \E o \in Objs, lev \in IoLevels, pwm \in 0..DutyScale : TranslateWrite(o, lev, pwm)


\* ================================= dma-gpio.c: the DMA proof of concept
PAGE_SIZE == 4096
\* sizeof(uint32_t): what one step of a uint32_t* is worth in bytes
SizeofUint32 == 4
TIMER_CLO == 4
TIMER_CHI == 8
GPIO_BASE_BUS == 2116026368
GPFSEL0 == 0
GPSET0 == 28
GPCLR0 == 40
DMACH1 == 256
DMACH3 == 768
DMAENABLE == 4080
\* the channel whose bit main sets in the ENABLE register: 1 << 3
EnableBit == 3
\* the pin main drives: 1 << 4
PinBit == 4
\* cb1->TXFR_LEN = 24
TxfrLen == 24

\* number of page frames of physical memory a page can be in
NumFrames == 2

Frames == 1..NumFrames
FrameAddr(f) == f * PAGE_SIZE

DMA_CS_RESET == "RESET"
DMA_CS_ACTIVE == "ACTIVE"
DMA_CS_END == "END"
DebugErrorFlags == {"READ_ERROR", "FIFO_ERROR", "READ_LAST_NOT_SET_ERROR"}

CbFields == {"TI", "SOURCE_AD", "DEST_AD", "TXFR_LEN", "STRIDE", "NEXTCONBK"}

\* a control block of which nothing has been assigned (the page is zero-filled)
ZeroBlock ==
    [TI |-> {}, SOURCE_AD |-> 0, DEST_AD |-> 0, TXFR_LEN |-> 0, STRIDE |-> 0,
     NEXTCONBK |-> 0]

\* byte address of p + n, p a uint32_t* at byte address base
PtrAdd(base, n) == base + SizeofUint32 * n

\* the access base + OFFSET, base a uint32_t* to a mapped peripheral: the byte
\* offset the macro documents and the byte offset accessed
Access(macro, offset) ==
    [macro |-> macro, documented |-> offset, off |-> PtrAdd(0, offset)]

\* an access at byte offset off of a peripheral mapped by mapPeripheral (one
\* page) is inside the mapping
InWindow(off) == off >= 0 /\ off + SizeofUint32 <= PAGE_SIZE

\* the channel whose register set is at byte offset off of the DMA page (the
\* register sets are DMACH1 - DMACH0 bytes apart)
ChannelAt(off) == off \div DMACH1

\* (volatile struct DmaChannelHeader*)(dmaBaseMem + DMACH3)
HeaderOffset == PtrAdd(0, DMACH3)
HeaderChannel == ChannelAt(HeaderOffset)

\* what is in memory at physical address a, read as a control block: cb1 when a
\* is where the control-block page is and the page is still allocated, and
\* whatever else happens to be there otherwise
BlocksAt(a) ==
    IF a = cbFrame /\ cbFrame # 0 /\ "cb" \notin freed THEN {cb1}
    ELSE {ZeroBlock,
          [ZeroBlock EXCEPT !.TXFR_LEN = SizeofUint32, !.NEXTCONBK = a]}

\* the word at physical address a: a word of srcArray, or whatever is there
WordsAt(a) ==
    IF /\ srcFrame # 0 /\ "src" \notin freed
       /\ a >= srcFrame /\ a < srcFrame + SizeofUint32 * Len(srcArray)
       /\ (a - srcFrame) % SizeofUint32 = 0
    THEN {srcArray[((a - srcFrame) \div SizeofUint32) + 1]}
    ELSE {{}, {PinBit}}

\* a write of word w at bus address a, as far as GPIO pin 4 is concerned
GpioWrite(g, a, w) ==
    IF a = GPIO_BASE_BUS + GPSET0 /\ PinBit \in w THEN [g EXCEPT !.latch = 1]
    ELSE IF a = GPIO_BASE_BUS + GPCLR0 /\ PinBit \in w THEN [g EXCEPT !.latch = 0]
    ELSE g

MainAt(l) == exitStatus = "running" /\ pc = l

Goto(l) == pc' = l /\ exitStatus' = exitStatus

\* exit(status), or the return from main
ExitWith(status) == pc' = "exited" /\ exitStatus' = status

\* int memfd = open("/dev/mem", ...); if (memfd < 0) exit(1)
MainOpen(ok) ==
    /\ MainAt("open")
    /\ IF ok THEN Goto("mapGpio") ELSE ExitWith("exit1")
    /\ UNCHANGED <<physSrcPage, physCbPage, srcFrame, cbFrame, srcArray, cb1,
                   cbAssigned, hdr, hdrWrites, cbAtActivate, enabled, gpio, freed>>
    /\ failures' = IF ok THEN failures ELSE failures \cup {"open /dev/mem"}
    /\ UNCHANGED accessed
    /\ UNCHANGED pinVars

\* mapPeripheral(memfd, addr): exit(1) when mmap fails
MapPeripheral(at, next, ok) ==
    /\ MainAt(at)
    /\ IF ok THEN Goto(next) ELSE ExitWith("exit1")
    /\ UNCHANGED <<physSrcPage, physCbPage, srcFrame, cbFrame, srcArray, cb1,
                   cbAssigned, hdr, hdrWrites, cbAtActivate, enabled, gpio, freed>>
    /\ failures' = IF ok THEN failures ELSE failures \cup {"mmap /dev/mem"}
    /\ UNCHANGED accessed
    /\ UNCHANGED pinVars

\* *fselAddr = ((*fselAddr) & ~fselMask) | fselValue: pin 4 becomes an output
SetPinOutput ==
    /\ MainAt("fsel")
    /\ gpio' = [gpio EXCEPT !.mode = "output"]
    /\ Goto("allocSrc")
    /\ UNCHANGED <<physSrcPage, physCbPage, srcFrame, cbFrame, srcArray, cb1,
                   cbAssigned, hdr, hdrWrites, cbAtActivate, enabled, freed>>
    /\ accessed' = accessed \cup {Access("GPFSEL0", GPFSEL0)}
    /\ UNCHANGED failures
    /\ UNCHANGED pinVars

\* makeVirtPhysPage(&virt, &phys). The page is in frame f. When valloc fails the
\* store through the null pointer ends the process; when the open or the read of
\* /proc/self/pagemap fails (their results are not looked at) pageInfo is
\* uninitialised, and phys is whatever g it happens to give.
MakeVirtPhysPage(which, f, outcome, g) ==
    /\ MainAt(IF which = "src" THEN "allocSrc" ELSE "allocCb")
    /\ which = "cb" => FrameAddr(f) # srcFrame
    /\ IF outcome = "vallocFails"
       THEN /\ ExitWith("SIGSEGV")
            /\ UNCHANGED <<physSrcPage, physCbPage, srcFrame, cbFrame>>
       ELSE /\ Goto(IF which = "src" THEN "fillSrc" ELSE "cbTI")
            /\ LET phys == IF outcome = "ok" THEN FrameAddr(f) ELSE FrameAddr(g) IN
               IF which = "src"
               THEN /\ srcFrame' = FrameAddr(f)
                    /\ physSrcPage' = phys
                    /\ UNCHANGED <<cbFrame, physCbPage>>
               ELSE /\ cbFrame' = FrameAddr(f)
                    /\ physCbPage' = phys
                    /\ UNCHANGED <<srcFrame, physSrcPage>>
    /\ UNCHANGED <<srcArray, cb1, cbAssigned, hdr, hdrWrites, cbAtActivate,
                   enabled, gpio, freed>>
    /\ failures' = CASE outcome = "ok" -> failures
                      [] outcome = "pagemapFails" -> failures \cup {"pagemap"}
                      [] outcome = "vallocFails" -> failures \cup {"valloc"}
    /\ UNCHANGED accessed
    /\ UNCHANGED pinVars

\* srcArray[0..5]: set pin 4, GPSET1, padding, clear pin 4, GPCLR1, padding
FillSrc ==
    /\ MainAt("fillSrc")
    /\ srcArray' = <<{PinBit}, {}, {}, {PinBit}, {}, {}>>
    /\ Goto("allocCb")
    /\ UNCHANGED <<physSrcPage, physCbPage, srcFrame, cbFrame, cb1, cbAssigned,
                   hdr, hdrWrites, cbAtActivate, enabled, gpio, freed>>
    /\ UNCHANGED <<failures, accessed>>
    /\ UNCHANGED pinVars

\* the value main assigns to each field of cb1
Cb1Value(field) ==
    CASE field = "TI" -> {"SRC_INC", "DEST_INC", "NO_WIDE_BURSTS"}
      [] field = "SOURCE_AD" -> physSrcPage
      [] field = "DEST_AD" -> GPIO_BASE_BUS + GPSET0
      [] field = "TXFR_LEN" -> TxfrLen
      [] field = "STRIDE" -> 0
      [] field = "NEXTCONBK" -> 0

\* cb1->field = ...; the assignments are made in the order of the source
FillCb(field, next) ==
    /\ MainAt("cb" \o field)
    /\ cb1' = [cb1 EXCEPT ![field] = Cb1Value(field)]
    /\ cbAssigned' = cbAssigned \cup {field}
    /\ Goto(next)
    /\ UNCHANGED <<physSrcPage, physCbPage, srcFrame, cbFrame, srcArray, hdr,
                   hdrWrites, cbAtActivate, enabled, gpio, freed>>
    /\ UNCHANGED <<failures, accessed>>
    /\ UNCHANGED pinVars

\* writeBitmasked(dmaBaseMem + DMAENABLE, 1 << 3, 1 << 3). dmaBaseMem is a
\* uint32_t*, so the access is at byte offset 4 * DMAENABLE: when that is
\* outside the page mapped, the write either faults or lands in whatever is
\* mapped there, and the ENABLE register is not written.
EnableChannel(faults) ==
    /\ MainAt("enable")
    /\ IF InWindow(PtrAdd(0, DMAENABLE))
       THEN /\ ~faults
            /\ enabled' = enabled \cup {EnableBit}
            /\ Goto("csReset")
       ELSE /\ enabled' = enabled
            /\ IF faults THEN ExitWith("SIGSEGV") ELSE Goto("csReset")
    /\ UNCHANGED <<physSrcPage, physCbPage, srcFrame, cbFrame, srcArray, cb1,
                   cbAssigned, hdr, hdrWrites, cbAtActivate, gpio, freed>>
    /\ accessed' = accessed \cup {Access("DMAENABLE", DMAENABLE)}
    /\ UNCHANGED failures
    /\ UNCHANGED pinVars

Wrote(reg, flags, addr) ==
    hdrWrites' = Append(hdrWrites, [reg |-> reg, flags |-> flags, addr |-> addr])

\* dmaHeader->CS = DMA_CS_RESET
ResetChannel ==
    /\ MainAt("csReset")
    /\ hdr' = [hdr EXCEPT !.CS = {DMA_CS_RESET}]
    /\ Wrote("CS", {DMA_CS_RESET}, 0)
    /\ Goto("sleep")
    /\ UNCHANGED <<physSrcPage, physCbPage, srcFrame, cbFrame, srcArray, cb1,
                   cbAssigned, cbAtActivate, enabled, gpio, freed>>
    /\ accessed' = accessed \cup {Access("DMACH3", DMACH3)}
    /\ UNCHANGED failures
    /\ UNCHANGED pinVars

\* sleep(1): the channel has handled the reset
Sleep ==
    /\ MainAt("sleep")
    /\ hdr' = [hdr EXCEPT !.CS = {}, !.CONBLK_AD = 0, !.TXFR_LEN = 0]
    /\ Goto("debugClear")
    /\ UNCHANGED <<physSrcPage, physCbPage, srcFrame, cbFrame, srcArray, cb1,
                   cbAssigned, hdrWrites, cbAtActivate, enabled, gpio, freed>>
    /\ UNCHANGED <<failures, accessed>>
    /\ UNCHANGED pinVars

\* dmaHeader->DEBUG = the three error flags: a flag written as 1 is cleared
ClearDebug ==
    /\ MainAt("debugClear")
    /\ hdr' = [hdr EXCEPT !.DEBUG = hdr.DEBUG \ DebugErrorFlags]
    /\ Wrote("DEBUG", DebugErrorFlags, 0)
    /\ Goto("conblk")
    /\ UNCHANGED <<physSrcPage, physCbPage, srcFrame, cbFrame, srcArray, cb1,
                   cbAssigned, cbAtActivate, enabled, gpio, freed>>
    /\ UNCHANGED <<failures, accessed>>
    /\ UNCHANGED pinVars

\* dmaHeader->CONBLK_AD = (uint32_t)physCbPage
WriteConblk ==
    /\ MainAt("conblk")
    /\ hdr' = [hdr EXCEPT !.CONBLK_AD = physCbPage]
    /\ Wrote("CONBLK_AD", {}, physCbPage)
    /\ Goto("csActive")
    /\ UNCHANGED <<physSrcPage, physCbPage, srcFrame, cbFrame, srcArray, cb1,
                   cbAssigned, cbAtActivate, enabled, gpio, freed>>
    /\ UNCHANGED <<failures, accessed>>
    /\ UNCHANGED pinVars

\* dmaHeader->CS = DMA_CS_ACTIVE; the engine loads the control block at
\* CONBLK_AD
Activate(blk) ==
    /\ MainAt("csActive")
    /\ blk \in BlocksAt(hdr.CONBLK_AD)
    /\ hdr' = [hdr EXCEPT !.CS = {DMA_CS_ACTIVE}, !.TI = blk.TI,
                          !.SOURCE_AD = blk.SOURCE_AD, !.DEST_AD = blk.DEST_AD,
                          !.TXFR_LEN = blk.TXFR_LEN, !.NEXTCONBK = blk.NEXTCONBK]
    /\ cbAtActivate' = blk
    /\ Wrote("CS", {DMA_CS_ACTIVE}, 0)
    /\ Goto("wait")
    /\ UNCHANGED <<physSrcPage, physCbPage, srcFrame, cbFrame, srcArray, cb1,
                   cbAssigned, enabled, gpio, freed>>
    /\ UNCHANGED <<failures, accessed>>
    /\ UNCHANGED pinVars

\* the loop left whatever CS reads
Mut_waitLoopExits(cs) == TRUE

\* the condition of while (dmaHeader->CS & DMA_CS_ACTIVE) {} is false
waitLoopExits(cs) == DMA_CS_ACTIVE \notin cs

\* while (dmaHeader->CS & DMA_CS_ACTIVE) {}: the loop is left when ACTIVE reads 0
WaitDone ==
    /\ MainAt("wait")
    /\ waitLoopExits(hdr.CS)
    /\ Goto("freeCb")
    /\ UNCHANGED <<physSrcPage, physCbPage, srcFrame, cbFrame, srcArray, cb1,
                   cbAssigned, hdr, hdrWrites, cbAtActivate, enabled, gpio, freed>>
    /\ UNCHANGED <<failures, accessed>>
    /\ UNCHANGED pinVars

\* freeVirtPhysPage(virtCbPage); freeVirtPhysPage(virtSrcPage)
FreeVirtPhysPage(which, next) ==
    /\ MainAt(IF which = "cb" THEN "freeCb" ELSE "freeSrc")
    /\ freed' = freed \cup {which}
    /\ Goto(next)
    /\ UNCHANGED <<physSrcPage, physCbPage, srcFrame, cbFrame, srcArray, cb1,
                   cbAssigned, hdr, hdrWrites, cbAtActivate, enabled, gpio>>
    /\ UNCHANGED <<failures, accessed>>
    /\ UNCHANGED pinVars

\* the two printf of readSysTime(timerBaseMem), and return 0
Return ==
    /\ MainAt("time")
    /\ ExitWith("exit0")
    /\ UNCHANGED <<physSrcPage, physCbPage, srcFrame, cbFrame, srcArray, cb1,
                   cbAssigned, hdr, hdrWrites, cbAtActivate, enabled, gpio, freed>>
    /\ accessed' = accessed \cup {Access("TIMER_CHI", TIMER_CHI),
                                   Access("TIMER_CLO", TIMER_CLO)}
    /\ UNCHANGED failures
    /\ UNCHANGED pinVars

\* ---- the DMA engine, on the channel that dmaHeader points at
EngineRuns == DMA_CS_ACTIVE \in hdr.CS /\ HeaderChannel \in enabled

\* one word goes from SOURCE_AD to DEST_AD
DmaCopy(w) ==
    /\ EngineRuns
    /\ hdr.TXFR_LEN > 0
    /\ w \in WordsAt(hdr.SOURCE_AD)
    /\ gpio' = GpioWrite(gpio, hdr.DEST_AD, w)
    /\ hdr' = [hdr EXCEPT
            !.TXFR_LEN = IF hdr.TXFR_LEN > SizeofUint32
                         THEN hdr.TXFR_LEN - SizeofUint32 ELSE 0,
            !.SOURCE_AD = IF "SRC_INC" \in hdr.TI
                          THEN hdr.SOURCE_AD + SizeofUint32 ELSE hdr.SOURCE_AD,
            !.DEST_AD = IF "DEST_INC" \in hdr.TI
                        THEN hdr.DEST_AD + SizeofUint32 ELSE hdr.DEST_AD]
    /\ UNCHANGED <<pc, exitStatus, physSrcPage, physCbPage, srcFrame, cbFrame,
                   srcArray, cb1, cbAssigned, hdrWrites, cbAtActivate, enabled, freed>>
    /\ UNCHANGED <<failures, accessed>>
    /\ UNCHANGED pinVars

\* the transfer of the block is complete: the engine loads the block at
\* NEXTCONBK, or stops (ACTIVE reads 0) when NEXTCONBK is 0
DmaEndBlock(blk) ==
    /\ EngineRuns
    /\ hdr.TXFR_LEN = 0
    /\ IF hdr.NEXTCONBK = 0
       THEN /\ blk = ZeroBlock
            /\ hdr' = [hdr EXCEPT !.CS = {DMA_CS_END}, !.CONBLK_AD = 0]
       ELSE /\ blk \in BlocksAt(hdr.NEXTCONBK)
            /\ hdr' = [hdr EXCEPT !.CS = {DMA_CS_ACTIVE, DMA_CS_END},
                                  !.CONBLK_AD = hdr.NEXTCONBK, !.TI = blk.TI,
                                  !.SOURCE_AD = blk.SOURCE_AD, !.DEST_AD = blk.DEST_AD,
                                  !.TXFR_LEN = blk.TXFR_LEN,
                                  !.NEXTCONBK = blk.NEXTCONBK]
    /\ UNCHANGED <<pc, exitStatus, physSrcPage, physCbPage, srcFrame, cbFrame,
                   srcArray, cb1, cbAssigned, hdrWrites, cbAtActivate, enabled,
                   gpio, freed>>
    /\ UNCHANGED <<failures, accessed>>
    /\ UNCHANGED pinVars

\* before main runs; the channel may hold error flags and be enabled or not
DmaInit ==
    /\ pc = "open"
    /\ exitStatus = "running"
    /\ physSrcPage = 0 /\ physCbPage = 0
    /\ srcFrame = 0 /\ cbFrame = 0
    /\ srcArray = <<>>
    /\ cb1 = ZeroBlock
    /\ cbAssigned = {}
    /\ hdr \in {[CS |-> {}, DEBUG |-> d, CONBLK_AD |-> 0, TI |-> {}, SOURCE_AD |-> 0,
                 DEST_AD |-> 0, TXFR_LEN |-> 0, NEXTCONBK |-> 0] :
                    d \in {{}, {"READ_ERROR"}}}
    /\ hdrWrites = <<>>
    /\ cbAtActivate = ZeroBlock
    /\ enabled \in {{}, {HeaderChannel}, {EnableBit, HeaderChannel}}
    /\ gpio = [mode |-> "input", latch |-> 0]
    /\ freed = {}
    /\ failures = {}
    /\ accessed = {}

\* the DMA program does not run
DmaIdle ==
    /\ pc = "idle"
    /\ exitStatus = "running"
    /\ physSrcPage = 0 /\ physCbPage = 0
    /\ srcFrame = 0 /\ cbFrame = 0
    /\ srcArray = <<>>
    /\ cb1 = ZeroBlock
    /\ cbAssigned = {}
    /\ hdr = [CS |-> {}, DEBUG |-> {}, CONBLK_AD |-> 0, TI |-> {}, SOURCE_AD |-> 0,
              DEST_AD |-> 0, TXFR_LEN |-> 0, NEXTCONBK |-> 0]
    /\ hdrWrites = <<>>
    /\ cbAtActivate = ZeroBlock
    /\ enabled = {}
    /\ gpio = [mode |-> "input", latch |-> 0]
    /\ freed = {}
    /\ failures = {}
    /\ accessed = {}

\* no pin object exists
PinIdle ==
    /\ pins = [o \in Objs |-> NoPin]
    /\ livingPins = {}
    /\ lines = [l \in Lines |-> [mode |-> "input", level |-> IoLow]]
    /\ doOnce = FALSE
    /\ exitHandlers = <<>>
    /\ phase = "running"
    /\ lastOp = NoOp
    /\ exitVisited = <<>>
    /\ linesAtExit = [l \in Lines |-> [mode |-> "input", level |-> IoLow]]

DmaNext ==
    \/ \E ok \in BOOLEAN : MainOpen(ok)
    \/ \E ok \in BOOLEAN :
        \/ MapPeripheral("mapGpio", "mapDma", ok)
        \/ MapPeripheral("mapDma", "mapTimer", ok)
        \/ MapPeripheral("mapTimer", "fsel", ok)
    \/ SetPinOutput
    \/ \E which \in {"src", "cb"}, f \in Frames,
          outcome \in {"ok", "pagemapFails", "vallocFails"}, g \in Frames \cup {0} :
            MakeVirtPhysPage(which, f, outcome, g)
    \/ FillSrc
    \/ FillCb("TI", "cbSOURCE_AD")
    \/ FillCb("SOURCE_AD", "cbDEST_AD")
    \/ FillCb("DEST_AD", "cbTXFR_LEN")
    \/ FillCb("TXFR_LEN", "cbSTRIDE")
    \/ FillCb("STRIDE", "cbNEXTCONBK")
    \/ FillCb("NEXTCONBK", "enable")
    \/ \E faults \in BOOLEAN : EnableChannel(faults)
    \/ ResetChannel
    \/ Sleep
    \/ ClearDebug
    \/ WriteConblk
    \/ \E blk \in BlocksAt(hdr.CONBLK_AD) : Activate(blk)
    \/ WaitDone
    \/ FreeVirtPhysPage("cb", "freeSrc")
    \/ FreeVirtPhysPage("src", "time")
    \/ Return
    \/ \E w \in WordsAt(hdr.SOURCE_AD) : DmaCopy(w)
    \/ \E blk \in BlocksAt(hdr.NEXTCONBK) \cup {ZeroBlock} : DmaEndBlock(blk)

Init == PinInit /\ DmaIdle

SpecPin == Init /\ [][PinNext]_vars

SpecIo == Init /\ [][IoNext]_vars

InitDma == PinIdle /\ DmaInit

SpecDma == InitDma /\ [][DmaNext]_vars

\* ------------------------------------------------- KosselPi's configuration
\* typedef InvertedPin<rpi::RpiIoPin<RPI_V2_GPIO_P1_16, IoHigh> > _StepperEn
StepperEn == "RPI_V2_GPIO_P1_16"

\* IODriverTypes: the four A4988 stepper drivers, each with its STEP, DIR and
\* ENABLE pin types
IODriverTypes ==
    <<[step |-> "RPI_V2_GPIO_P1_22", dir |-> "RPI_V2_GPIO_P1_23", enable |-> StepperEn],
      [step |-> "RPI_V2_GPIO_P1_19", dir |-> "RPI_V2_GPIO_P1_21", enable |-> StepperEn],
      [step |-> "RPI_V2_GPIO_P1_13", dir |-> "RPI_V2_GPIO_P1_15", enable |-> StepperEn],
      [step |-> "RPI_V2_GPIO_P1_03", dir |-> "RPI_V2_GPIO_P1_05", enable |-> StepperEn]>>

\* the drivers whose ENABLE pin is on line l: each of them constructs its own pin
DriversEnabledBy(l) == {i \in DOMAIN IODriverTypes : IODriverTypes[i].enable = l}

\* ================================================================ the claims
\* the level a pin's output shows through the pin, i.e. before write inversion
PinOutputLevel(ls, p) ==
    IF p.invertWrites THEN NotLevel(ls[p.pin].level) ELSE ls[p.pin].level

\* pin p's line is in p's default state; before are the lines before the handler
InDefaultState(ls, before, p) ==
    /\ p.defaultState = IO_DEFAULT_LOW =>
            ls[p.pin].mode = "output" /\ PinOutputLevel(ls, p) = IoLow
    /\ p.defaultState = IO_DEFAULT_HIGH =>
            ls[p.pin].mode = "output" /\ PinOutputLevel(ls, p) = IoHigh
    /\ p.defaultState = IO_DEFAULT_HIGH_IMPEDANCE => ls[p.pin].mode = "input"
    /\ p.defaultState = IO_DEFAULT_NONE => ls[p.pin] = before[p.pin]

LivePins == {o \in Objs : pins[o].live}

\* the live pins that reference line l
OwnersOf(l) == {o \in LivePins : pins[o].pin = l}

\* C1: exit safety. Once the exit handler has run, every live pin (that
\* references a line) is in its default state: an output at low / at high, an
\* input, or untouched.
C1_ExitSafety ==
    phase = "exited" =>
        \A o \in LivePins :
            pins[o].pin # NullPin => InDefaultState(lines, linesAtExit, pins[o])

\* C1 holds of every exit at which no two live pins share a line: the claim
\* fails through the sharing of C3 alone.
C1_ExitSafetyUnshared ==
    (phase = "exited" /\ \A l \in Lines : Cardinality(OwnersOf(l)) <= 1) =>
        \A o \in LivePins :
            pins[o].pin # NullPin => InDefaultState(lines, linesAtExit, pins[o])

\* C2, as claimed: after the exit handler, the line of every live pin whose
\* default state is LOW reads the physical level 0, whatever the pin's
\* inversion flags.
C2_DefaultLowReadsZero ==
    phase = "exited" =>
        \A o \in LivePins :
            (pins[o].pin # NullPin /\ pins[o].defaultState = IO_DEFAULT_LOW) =>
                lines[pins[o].pin].level = IoLow

\* the live pins on line l that carry a default state
DefaultedOwnersOf(l) == {o \in OwnersOf(l) : pins[o].defaultState # IO_DEFAULT_NONE}

\* the one deactivateAll visits last
LastOf(S) == CHOOSE x \in S : \A y \in S : y <= x

\* C2, amended: after the exit handler, the line of a live pin whose default
\* state is LOW, the pin being the last pin with a default state that the
\* handler visits on that line, is a digital output that reads 0 when the pin's
\* invert_writes is clear and 1 when it is set; invert_reads has no effect.
C2_DefaultLowReadsTranslatedLow ==
    phase = "exited" =>
        \A l \in Lines :
            DefaultedOwnersOf(l) # {} =>
                LET p == pins[LastOf(DefaultedOwnersOf(l))] IN
                p.defaultState = IO_DEFAULT_LOW =>
                    /\ lines[l].mode = "output"
                    /\ lines[l].level = (IF p.invertWrites THEN IoHigh ELSE IoLow)

\* a pin with default LOW and inverted writes (and reads) has been driven by
\* the exit handler: its line was an input at 0 and is now an output at 1
C2_Witness ==
    /\ phase = "exited"
    /\ \E o \in LivePins :
        /\ pins[o].pin # NullPin
        /\ pins[o].defaultState = IO_DEFAULT_LOW
        /\ pins[o].invertWrites /\ pins[o].invertReads
        /\ linesAtExit[pins[o].pin] = [mode |-> "input", level |-> IoLow]
        /\ lines[pins[o].pin] = [mode |-> "output", level |-> IoHigh]

\* C3: at most one live pin references any given hardware line.
C3_OneLivePinPerLine ==
    \A l \in Lines : Cardinality(OwnersOf(l)) <= 1

\* what a move of other into this leaves, when they are two objects
MovePost(this, other) ==
    /\ pins'[this].pin = pins[other].pin
    /\ pins'[this].invertReads = pins[other].invertReads
    /\ pins'[this].invertWrites = pins[other].invertWrites
    /\ pins'[this].defaultState = pins[other].defaultState
    /\ pins'[this].live /\ pins'[other].live
    /\ pins'[other].pin = NullPin
    /\ this \in livingPins'
    /\ other \notin livingPins'

\* the number of times deactivateAll visited pin o
TimesVisited(o) == Cardinality({i \in DOMAIN exitVisited : exitVisited[i] = o})

\* C4: a move of pin b into a distinct pin a leaves a with b's line, inversion
\* flags and default state, b null, a in the registry and b out of it; and the
\* exit handler, whenever it runs, drives each line through the live pins that
\* reference it then (once each), never through a null or moved-from pin, and
\* leaves a line with one owner in that owner's default state.
C4_MoveTransfersOwnership ==
    /\ [][\A a, b \in Objs :
            (a # b /\ (MoveAssign(a, b) \/ MoveConstruct(a, b))) => MovePost(a, b)]_vars
    /\ [](phase = "exited" =>
            /\ \A o \in LivePins : pins[o].pin # NullPin => TimesVisited(o) = 1
            /\ \A o \in Objs : TimesVisited(o) > 0 => o \in LivePins \cap livingPins
            /\ \A l \in Lines : \A o \in OwnersOf(l) :
                OwnersOf(l) = {o} => InDefaultState(lines, linesAtExit, pins[o]))

\* b has been moved into a: a owns a line, with inverted reads and a default
\* state, and is registered; b is alive, null and not registered
C4_Witness ==
    /\ phase = "running"
    /\ \E a, b \in Objs :
        /\ a # b /\ pins[a].live /\ pins[b].live
        /\ pins[a].pin # NullPin /\ pins[a].invertReads
        /\ pins[a].defaultState = IO_DEFAULT_HIGH
        /\ a \in livingPins
        /\ pins[b].pin = NullPin /\ pins[b].defaultState = IO_DEFAULT_HIGH
        /\ b \notin livingPins

\* C5, as claimed: the registry holds exactly the live pins (every pin from its
\* construction to its destruction, and none after it).
C5_RegistryIsTheLivePins == livingPins = LivePins

\* C5, amended: the registry holds no destroyed pin and holds every live pin
\* that references a line; a live pin leaves the registry when it is moved from
\* (it is null from then on), and enters it again when it is moved into.
C5_RegistryHoldsLiveOwners ==
    /\ livingPins \subseteq LivePins
    /\ \A o \in LivePins : pins[o].pin # NullPin => o \in livingPins

\* one pin has been destroyed (the handler is registered, so a pin was
\* constructed) and the other is alive and out of the registry
C5_Witness ==
    /\ doOnce
    /\ \E a, b \in Objs :
        /\ a # b /\ ~pins[a].live
        /\ pins[b].live /\ b \notin livingPins

\* C6: the inversion laws. A write hands the primitive pin the opposite of the
\* level asked for iff invert_writes is set, a duty cycle d becomes 1-d iff
\* invert_writes is set, a read returns the opposite of the primitive level iff
\* invert_reads is set; the other flag plays no part.
C6_InversionLaws ==
    LET p == pins[lastOp.obj]
        Opposite(lev) == CHOOSE x \in IoLevels : x # lev
    IN
    /\ lastOp.op \in {"makeDigitalOutput", "digitalWrite", "translate"} =>
            lastOp.prim = (IF p.invertWrites THEN Opposite(lastOp.lev) ELSE lastOp.lev)
    /\ lastOp.op = "translate" =>
            lastOp.duty = (IF p.invertWrites THEN DutyScale - lastOp.asked
                           ELSE lastOp.asked)
    /\ (lastOp.op \in {"makeDigitalOutput", "digitalWrite"} /\ ~lastOp.null) =>
            lines[p.pin].level = lastOp.prim
    /\ (lastOp.op = "makeDigitalOutput" /\ ~lastOp.null) => lines[p.pin].mode = "output"
    /\ (lastOp.op = "digitalRead" /\ ~lastOp.null) => lastOp.prim = lines[p.pin].level
    /\ lastOp.op = "digitalRead" =>
            lastOp.lev = (IF p.invertReads THEN Opposite(lastOp.prim) ELSE lastOp.prim)

\* a pin that inverts writes and not reads has written high: its line is low
C6_Witness ==
    /\ lastOp.op = "digitalWrite"
    /\ ~lastOp.null
    /\ pins[lastOp.obj].invertWrites /\ ~pins[lastOp.obj].invertReads
    /\ lastOp.lev = IoHigh
    /\ lines[pins[lastOp.obj].pin].level = IoLow

\* C7: setToDefault, destruction and deactivateAll of a null pin change no
\* line; destroying a pin that has been moved from (a live pin out of the
\* registry) changes no line either, and the exit handler changes only lines
\* that a registered pin references.
C7_NullOperationsAreNoOps ==
    /\ [][\A o \in Objs :
            (isNull(pins[o]) /\ (Destroy(o) \/ SetToDefault(o))) => lines' = lines]_vars
    /\ [][\A o \in Objs : (o \notin livingPins /\ Destroy(o)) => lines' = lines]_vars
    /\ [][Exit => \A l \in Lines :
            (\A o \in livingPins : pins[o].pin # l) => lines'[l] = lines[l]]_vars

\* the null source of a move, whose default state is HIGH, has been
\* destroyed, and the pin that owns the line is still at low
C7_Witness ==
    /\ lastOp.op = "destroy" /\ lastOp.null
    /\ \E a \in LivePins :
        /\ pins[a].pin # NullPin
        /\ pins[a].defaultState = IO_DEFAULT_HIGH
        /\ ~pins[a].invertWrites
        /\ lines[pins[a].pin].level = IoLow
        /\ \A b \in Objs \ {a} : ~pins[b].live

\* C8: deactivateAll is registered exactly once, at SCHED_IO_EXIT_LEVEL, by the
\* first call of registerExitHandler (the first construction), and no later
\* call registers anything more.
C8_RegisteredOnce ==
    /\ [](Len(exitHandlers) <= 1)
    /\ [](doOnce <=>
            exitHandlers = <<[fn |-> "deactivateAll", level |-> SCHED_IO_EXIT_LEVEL]>>)
    /\ []((LivePins # {}) => doOnce)
    /\ [][doOnce => exitHandlers' = exitHandlers]_vars

\* two pins have been constructed (two calls of registerExitHandler), and one
\* handler is registered
C8_Witness ==
    /\ \A o \in Objs : pins[o].live /\ pins[o].pin # NullPin /\ o \in livingPins
    /\ Len(exitHandlers) = 1

\* ------------------------------------------------------------ DMA bring-up
HdrWrite(reg, flags, addr) == [reg |-> reg, flags |-> flags, addr |-> addr]

\* the writes of the bring-up, the control block being at physical address a
BringUp(a) ==
    <<HdrWrite("CS", {DMA_CS_RESET}, 0),
      HdrWrite("DEBUG", DebugErrorFlags, 0),
      HdrWrite("CONBLK_AD", {}, a),
      HdrWrite("CS", {DMA_CS_ACTIVE}, 0)>>

IsPrefix(s, t) == Len(s) <= Len(t) /\ s = SubSeq(t, 1, Len(s))

Activated == \E i \in 1..Len(hdrWrites) : DMA_CS_ACTIVE \in hdrWrites[i].flags

ConblkWritten == \E i \in 1..Len(hdrWrites) : hdrWrites[i].reg = "CONBLK_AD"

\* the order of the writes and what ACTIVE waits for, the address written
\* being the one main holds in physCbPage
C9_WriteOrder ==
    /\ IsPrefix(hdrWrites, BringUp(physCbPage))
    /\ Len(hdrWrites) >= 2 /\ ~Activated => hdr.DEBUG \cap DebugErrorFlags = {}
    /\ Activated => cbAssigned = CbFields /\ ConblkWritten

\* C9: the writes to the channel's registers are, in this order, CS <- RESET,
\* DEBUG <- the three error flags (which clears them), CONBLK_AD <- the
\* physical address of the first control block, CS <- ACTIVE; and ACTIVE is
\* not set before every field of the control block has been assigned and
\* CONBLK_AD has been written.
C9_BringUpOrder ==
    /\ IsPrefix(hdrWrites, BringUp(cbFrame))
    /\ Len(hdrWrites) >= 2 /\ ~Activated => hdr.DEBUG \cap DebugErrorFlags = {}
    /\ Activated => cbAssigned = CbFields /\ ConblkWritten

\* C10: the ring is closed: the control block handed to the engine has a
\* NEXTCONBK that is not 0 and leads back to the first block of the ring, and
\* once the channel is activated the engine does not clear ACTIVE.
C10_RingClosed ==
    Activated =>
        /\ cb1.NEXTCONBK # 0
        /\ cb1.NEXTCONBK = cbFrame
        /\ DMA_CS_ACTIVE \in hdr.CS

\* the same for the runs in which CONBLK_AD did get the address of cb1
C10_RingClosedAtCb1 ==
    Activated /\ physCbPage = cbFrame => cbAtActivate.NEXTCONBK # 0

\* C11: the control block in effect when the channel is activated is paced by
\* the DREQ of the PWM peripheral and copies one frame: its TI is SRC_INC |
\* DEST_DREQ | PERMAP(PWM) | NO_WIDE_BURSTS, its DEST_AD the bus address of
\* GPSET0, its SOURCE_AD the physical address of the frame, its TXFR_LEN 8.
C11_BlockIsDreqPacedFrame ==
    Activated =>
        /\ cbAtActivate.TI = {"SRC_INC", "DEST_DREQ", "PERMAP_PWM", "NO_WIDE_BURSTS"}
        /\ cbAtActivate.DEST_AD = GPIO_BASE_BUS + GPSET0
        /\ cbAtActivate.SOURCE_AD = srcFrame
        /\ cbAtActivate.TXFR_LEN = 8

\* what the block loaded at activation is when both pagemap reads succeeded:
\* the block main filled in
C11_BlockIsCb1AsWritten ==
    Activated /\ physCbPage = cbFrame /\ physSrcPage = srcFrame =>
        /\ cbAtActivate.TI = {"SRC_INC", "DEST_INC", "NO_WIDE_BURSTS"}
        /\ cbAtActivate.DEST_AD = GPIO_BASE_BUS + GPSET0
        /\ cbAtActivate.SOURCE_AD = srcFrame
        /\ cbAtActivate.TXFR_LEN = TxfrLen

\* ------------------------------------------------------------ exit statuses
\* the process has ended with a status that is not 0 (exit(1), or the death by
\* a signal)
ExitedNonZero == exitStatus \in {"exit1", "SIGSEGV"}

\* C12: once opening or mapping /dev/mem, opening or reading
\* /proc/self/pagemap, or the setting up of the DMA pages has failed, the
\* process ends with a status that is not 0 and the channel is not activated;
\* the status is 0 only when none of them failed.
C12_FailuresExitNonZero ==
    /\ failures # {} => ExitedNonZero /\ ~Activated
    /\ exitStatus = "exit0" => failures = {}

\* the same for the failures main and mapPeripheral do test
C12_DevMemFailuresExit ==
    /\ failures \cap {"open /dev/mem", "mmap /dev/mem", "valloc"} # {} =>
            ExitedNonZero /\ ~Activated
    /\ exitStatus = "exit0" =>
            failures \cap {"open /dev/mem", "mmap /dev/mem", "valloc"} = {}

\* ------------------------------------------------------------ leaked lines
\* line l has an owner before the step and none after it
LosesLastOwner(l) == OwnersOf(l) # {} /\ OwnersOf(l)' = {}

\* the step leaves every line that loses its last owner in the default state
\* of a pin that owned it
ReleasedLinesAreDefaulted ==
    \A l \in Lines :
        LosesLastOwner(l) =>
            \E o \in OwnersOf(l) : InDefaultState(lines', lines, pins[o])

\* C13: no hardware line is leaked. A line that a pin references is referenced
\* by a live pin of the registry, and a line that stops being referenced (by a
\* destruction, a move construction, a move assignment onto a pin that owns a
\* line, a self-assignment) has been driven to the default state of the pin
\* that owned it last.
C13_NoLineLeaked ==
    /\ [](\A l \in Lines : OwnersOf(l) # {} => OwnersOf(l) \cap livingPins # {})
    /\ [][ReleasedLinesAreDefaulted]_vars

\* the same for the destructor and the move constructor alone
C13_DestroyAndMoveConstructKeepLines ==
    /\ [](\A l \in Lines : OwnersOf(l) # {} => OwnersOf(l) \cap livingPins # {})
    /\ [][(\/ \E o \in Objs : Destroy(o)
           \/ \E this, other \in Objs : MoveConstruct(this, other))
             => ReleasedLinesAreDefaulted]_vars

\* ------------------------------------------------------------ freeing the pages
\* the channel's current control block or source address is in a freed page
RefersToFreedPage ==
    \/ "cb" \in freed /\ hdr.CONBLK_AD = cbFrame
    \/ "src" \in freed /\ hdr.SOURCE_AD >= srcFrame
                       /\ hdr.SOURCE_AD < srcFrame + PAGE_SIZE

\* C14: the control-block page and the source page are freed only after ACTIVE
\* has been read as clear: a page is freed in a step only when the channel has
\* been activated and ACTIVE is clear, and the channel is never ACTIVE while a
\* page is freed, so never while its control block or source address refers
\* to a freed page.
C14_FreedOnlyAfterActiveClear ==
    /\ [](DMA_CS_ACTIVE \in hdr.CS => freed = {} /\ ~RefersToFreedPage)
    /\ [][freed' # freed =>
            Activated /\ DMA_CS_ACTIVE \notin hdr.CS /\ DMA_CS_ACTIVE \notin hdr'.CS]_vars

\* both pages are freed after the engine has run the block main wrote to its end
C14_Witness ==
    /\ freed = {"cb", "src"}
    /\ Activated
    /\ cbAtActivate = cb1 /\ physCbPage = cbFrame
    /\ DMA_CS_END \in hdr.CS

\* ------------------------------------------------------------ register addresses
\* C15: every access base + OFFSET to a peripheral register (GPFSEL0,
\* DMAENABLE, DMACH3, TIMER_CLO, TIMER_CHI) is at the byte offset the macro
\* documents and inside the PAGE_SIZE bytes mapped, and the channel whose
\* header main resets, programs and activates is the channel of the enable
\* bit main sets.
C15_RegisterAddresses ==
    /\ \A a \in accessed : a.off = a.documented /\ a.off < PAGE_SIZE
    /\ hdrWrites # <<>> => HeaderChannel = EnableBit

\* what the accesses are: each at sizeof(uint32_t) times the documented offset,
\* which is the documented register for GPFSEL0 alone
C15_AccessesAreScaled ==
    /\ \A a \in accessed :
        /\ a.off = SizeofUint32 * a.documented
        /\ a.macro = "GPFSEL0" => a.off = a.documented /\ InWindow(a.off)
    /\ hdrWrites # <<>> => HeaderChannel = SizeofUint32 * EnableBit

====
